---- MODULE Spec2Model ----
(***************************************************************************)
(* Model of packet01-parsing/xdp_prog_kern.c: the XDP program              *)
(* xdp_parser_func and the header parsers it is built from.                *)
(*                                                                         *)
(* A frame is a sequence of bytes; data is offset 0 and data_end is the    *)
(* length of the sequence.  Pointers into the frame are byte offsets.      *)
(* Every parser is an operator that returns the value the C function       *)
(* returns together with the cursor it leaves behind, the handle it        *)
(* stores, and the set of offsets it dereferenced.                         *)
(***************************************************************************)
EXTENDS Integers, Sequences, FiniteSets, TLC

(***************************************************************************)
(* Bounds of the model.                                                    *)
(***************************************************************************)
\* deepest VLAN stack the frame source generates
MaxTags == 3
\* processing contexts that run the program concurrently (SpecConc)
NumCPU == 2
\* frames the frame source delivers in one run of SpecConc
MaxRx == 3

(***************************************************************************)
(* Program constants.                                                      *)
(***************************************************************************)
\* mutant: the depth cap off by one
VLAN_MAX_DEPTH_OffByOne == 2 + 1

VLAN_MAX_DEPTH == 2

ETH_P_IP == 2048
ETH_P_IPV6 == 34525
ETH_P_8021Q == 33024
ETH_P_8021AD == 34984

XDP_DROP == 1
XDP_PASS == 2

\* sizeof(struct ethhdr), sizeof(struct vlan_hdr), sizeof(struct ipv6hdr),
\* sizeof(struct iphdr), sizeof(struct icmp6hdr), sizeof(struct icmphdr)
SizeofEthhdr == 14
SizeofVlanHdr == 4
SizeofIpv6hdr == 40
SizeofIphdr == 20
SizeofIcmp6hdr == 8
SizeofIcmphdr == 8

\* offsetof(struct ethhdr, h_proto), offsetof(struct vlan_hdr,
\* h_vlan_encapsulated_proto), offsetof(struct ipv6hdr, nexthdr),
\* offsetof(struct iphdr, protocol), offsetof(struct icmp6hdr,
\* icmp6_sequence), offsetof(struct icmphdr, un.echo.sequence)
OffHProto == 12
OffVlanEncap == 2
OffNexthdr == 6
OffProtocol == 9
OffIcmp6Sequence == 6
OffEchoSequence == 6

\* value of a pointer variable that was declared and never assigned
Uninit == -1

(***************************************************************************)
(* Memory and byte order.                                                  *)
(***************************************************************************)
\* data_end of a frame, as an offset from data
DataEnd(f) == Len(f)

\* the byte at offset o; a load at or beyond data_end yields no frame byte
Byte(f, o) == IF o >= 0 /\ o < Len(f) THEN f[o + 1] ELSE 0

\* a 16-bit load from offsets o, o+1 on a host of the given byte order
Load16(f, o, be) ==
    IF be THEN 256 * Byte(f, o) + Byte(f, o + 1)
          ELSE Byte(f, o) + 256 * Byte(f, o + 1)

Swab16(x) == (x % 256) * 256 + (x \div 256)

bpf_htons(x, be) == IF be THEN x ELSE Swab16(x)

bpf_ntohs(x, be) == IF be THEN x ELSE Swab16(x)

proto_is_vlan(h_proto, be) ==
    \/ h_proto = bpf_htons(ETH_P_8021Q, be)
    \/ h_proto = bpf_htons(ETH_P_8021AD, be)

(***************************************************************************)
(* The parsers.  Each returns                                              *)
(*   ret   the int the C function returns                                  *)
(*   pos   nh->pos when it returns                                         *)
(*   hdr   the handle stored through the out parameter, or Uninit          *)
(*   reads the offsets of the frame bytes it loaded                        *)
(*   iters the number of VLAN loop bodies entered (parse_ethhdr only)      *)
(***************************************************************************)
RECURSIVE VlanLoop(_, _, _, _, _, _, _, _)
VlanLoop(f, be, vh, i, proto, p, rd, eth) ==
    IF i >= VLAN_MAX_DEPTH
    THEN [ret |-> proto, pos |-> p, hdr |-> eth, reads |-> rd, iters |-> i]
    ELSE IF vh + SizeofVlanHdr * i + SizeofVlanHdr > DataEnd(f)
    THEN [ret |-> proto, pos |-> p, hdr |-> eth, reads |-> rd, iters |-> i + 1]
    ELSE LET at  == vh + SizeofVlanHdr * i + OffVlanEncap
             enc == Load16(f, at, be)
             rd2 == rd \cup {at, at + 1}
         IN  IF ~proto_is_vlan(enc, be)
             THEN [ret |-> enc, pos |-> p, hdr |-> eth, reads |-> rd2,
                   iters |-> i + 1]
             ELSE VlanLoop(f, be, vh, i + 1, enc,
                           vh + SizeofVlanHdr * i + SizeofVlanHdr, rd2, eth)

parse_ethhdr(f, be, p) ==
    LET eth == p IN
    IF eth + SizeofEthhdr > DataEnd(f)
    THEN [ret |-> -1, pos |-> p, hdr |-> Uninit, reads |-> {}, iters |-> 0]
    ELSE LET proto == Load16(f, eth + OffHProto, be)
             rd    == {eth + OffHProto, eth + OffHProto + 1}
             nxt   == eth + SizeofEthhdr
         IN  IF proto_is_vlan(proto, be)
             THEN VlanLoop(f, be, nxt, 0, proto, nxt, rd, eth)
             ELSE [ret |-> proto, pos |-> nxt, hdr |-> eth, reads |-> rd,
                   iters |-> 0]

parse_ip6hdr(f, be, p) ==
    LET ip6h == p IN
    IF ip6h + SizeofIpv6hdr > DataEnd(f)
    THEN [ret |-> -1, pos |-> p, hdr |-> Uninit, reads |-> {}, iters |-> 0]
    ELSE [ret |-> Byte(f, ip6h + OffNexthdr), pos |-> ip6h + SizeofIpv6hdr,
          hdr |-> ip6h, reads |-> {ip6h + OffNexthdr}, iters |-> 0]

\* mutant: parse_iphdr without the check of the full header length
parse_iphdr_OneCheck(f, be, p) ==
    LET ipv4h == p IN
    IF ipv4h + SizeofIphdr > DataEnd(f)
    THEN [ret |-> -1, pos |-> p, hdr |-> Uninit, reads |-> {}, iters |-> 0]
    ELSE LET hdrsize == (Byte(f, ipv4h) % 16) * 4 IN
         [ret |-> Byte(f, ipv4h + OffProtocol), pos |-> ipv4h + hdrsize,
          hdr |-> ipv4h, reads |-> {ipv4h, ipv4h + OffProtocol}, iters |-> 0]

parse_iphdr(f, be, p) ==
    LET ipv4h == p IN
    IF ipv4h + SizeofIphdr > DataEnd(f)
    THEN [ret |-> -1, pos |-> p, hdr |-> Uninit, reads |-> {}, iters |-> 0]
    ELSE LET hdrsize == (Byte(f, ipv4h) % 16) * 4 IN
         IF ipv4h + hdrsize > DataEnd(f)
         THEN [ret |-> -1, pos |-> p, hdr |-> Uninit, reads |-> {ipv4h},
               iters |-> 0]
         ELSE [ret |-> Byte(f, ipv4h + OffProtocol), pos |-> ipv4h + hdrsize,
               hdr |-> ipv4h, reads |-> {ipv4h, ipv4h + OffProtocol},
               iters |-> 0]

parse_icmp6hdr(f, be, p) ==
    LET icmp6h == p IN
    IF icmp6h + SizeofIcmp6hdr > DataEnd(f)
    THEN [ret |-> -1, pos |-> p, hdr |-> Uninit, reads |-> {}, iters |-> 0]
    ELSE [ret |-> Byte(f, icmp6h), pos |-> icmp6h + SizeofIcmp6hdr,
          hdr |-> icmp6h, reads |-> {icmp6h}, iters |-> 0]

\* mutant: parse_icmphdr without its bounds check
parse_icmphdr_Unchecked(f, be, p) ==
    LET icmph == p IN
    [ret |-> Byte(f, icmph), pos |-> icmph + SizeofIcmphdr,
     hdr |-> icmph, reads |-> {icmph}, iters |-> 0]

parse_icmphdr(f, be, p) ==
    LET icmph == p IN
    IF icmph + SizeofIcmphdr > DataEnd(f)
    THEN [ret |-> -1, pos |-> p, hdr |-> Uninit, reads |-> {}, iters |-> 0]
    ELSE [ret |-> Byte(f, icmph), pos |-> icmph + SizeofIcmphdr,
          hdr |-> icmph, reads |-> {icmph}, iters |-> 0]

\* mutant: the parity test on the field as loaded, without bpf_ntohs
SeqAction_NoNtohs(f, be, sq) ==
    LET seqno == Load16(f, sq, be) IN
    IF seqno % 2 = 1 THEN XDP_PASS ELSE XDP_DROP

\* the parity test of lines 177-181 and 187-191 on the 16-bit field at sq
SeqAction(f, be, sq) ==
    LET seqno == bpf_ntohs(Load16(f, sq, be), be) IN
    IF seqno % 2 = 1 THEN XDP_PASS ELSE XDP_DROP

(***************************************************************************)
(* The frame source.  Frames are built from the wire formats (Ethernet II, *)
(* 802.1Q/802.1AD tags, IPv4 with options, IPv6, an 8-byte L4 header) and  *)
(* then cut at every length, so that truncated, VLAN-stacked and bogus-IHL *)
(* frames all occur.                                                       *)
(***************************************************************************)
Rep(b, n) == [i \in 1..n |-> b]

Be16(x) == <<x \div 256, x % 256>>

Max(a, b) == IF a >= b THEN a ELSE b

\* bytes used for the fields the classifier is not meant to look at
FillBytes == {0, 1}

\* echo sequence numbers: odd, even, and even with an odd high byte
SeqValues == {1, 2, 256}

\* EtherTypes of the L3 payload: IPv4, IPv6, ARP
EtherTypes == {ETH_P_IP, ETH_P_IPV6, 2054}

\* IPv4 protocol / IPv6 next header that announces ICMP / ICMPv6
IcmpProto(et) == IF et = ETH_P_IP THEN 1 ELSE 58

\* the L4 protocols generated over an L3 protocol: ICMP and TCP
L4Protos(et) == IF et \in {ETH_P_IP, ETH_P_IPV6} THEN {IcmpProto(et), 6}
                ELSE {0}

IhlValues(et) == IF et = ETH_P_IP THEN 0..15 ELSE {0}

\* TPID of tag i (1 = outermost) in a stack of n tags: 802.1AD outside
\* 802.1Q when tags are stacked
Tpid(i, n) == IF i = 1 /\ n >= 2 THEN ETH_P_8021AD ELSE ETH_P_8021Q

\* the EtherType field that precedes tag i+1 (or the L3 header) of n tags
TypeAfter(i, n, et) == IF i < n THEN Tpid(i + 1, n) ELSE et

RECURSIVE VlanTags(_, _, _, _)
VlanTags(i, n, et, fill) ==
    IF i > n THEN <<>>
    ELSE <<fill, fill>> \o Be16(TypeAfter(i, n, et)) \o VlanTags(i + 1, n, et, fill)

EthBytes(n, et, fill) ==
    Rep(fill, 12) \o Be16(TypeAfter(0, n, et)) \o VlanTags(1, n, et, fill)

Ipv4Bytes(ihl, proto, fill) ==
    <<64 + ihl>> \o Rep(fill, 8) \o <<proto>> \o Rep(fill, 10)
        \o Rep(fill, Max(ihl * 4 - 20, 0))

Ipv6Bytes(nh, fill) == <<96>> \o Rep(fill, 5) \o <<nh>> \o Rep(fill, 33)

L3Bytes(et, ihl, proto, fill) ==
    IF et = ETH_P_IP THEN Ipv4Bytes(ihl, proto, fill)
    ELSE IF et = ETH_P_IPV6 THEN Ipv6Bytes(proto, fill)
    ELSE Rep(fill, 8)

\* echo request (type 8 / 128), code 0, checksum, identifier, sequence
L4Bytes(et, proto, sq, fill) ==
    <<(IF proto # IcmpProto(et) THEN fill
       ELSE IF et = ETH_P_IP THEN 8 ELSE 128),
      0, fill, fill, 0, fill>> \o Be16(sq)

Build(n, et, ihl, proto, sq, fill) ==
    EthBytes(n, et, fill) \o L3Bytes(et, ihl, proto, fill)
        \o L4Bytes(et, proto, sq, fill)

FullFrames ==
    UNION { { Build(n, et, ihl, proto, sq, fill) :
                ihl \in IhlValues(et), proto \in L4Protos(et),
                sq \in SeqValues, fill \in FillBytes } :
            n \in 0..MaxTags, et \in EtherTypes }

\* the first k bytes of a frame
Cut(f, k) == SubSeq(f, 1, IF k < Len(f) THEN k ELSE Len(f))

\* every frame cut at every length, the empty frame included
Frames == UNION { { Cut(f, k) : k \in 0..Len(f) } : f \in FullFrames }

\* the frames of the concurrent runs: an IPv6 echo with an odd sequence
\* number, bare and behind one VLAN tag, an IPv4 echo with an even one,
\* and that frame cut inside its IPv4 header and inside its Ethernet header
ConcFrames ==
    { Build(n, ETH_P_IPV6, 0, IcmpProto(ETH_P_IPV6), 1, 0) : n \in {0, 1} }
    \cup { Cut(Build(0, ETH_P_IP, 5, IcmpProto(ETH_P_IP), 2, 0), k) :
             k \in {10, 20, 42} }

(***************************************************************************)
(* The program state.                                                      *)
(***************************************************************************)
CPUs == 1..NumCPU

VARIABLES
    bigEndian,  \* byte order of the host the program was built for
    rxLeft,     \* frames the frame source will still deliver
    started,    \* invocations of xdp_parser_func begun so far
    stats,      \* xdp_stats_map: action -> packets recorded
    pc,         \* per context: where the invocation stands
    frame,      \* per context: ctx, the bytes in [data, data_end)
    pos,        \* per context: nh.pos
    nh_type,    \* per context: nh_type
    action,     \* per context: action
    hdrs,       \* per context: the handles eth, l3 (ip6h/iph), l4 (icmp6h/icmph)
    reads,      \* per context: offsets dereferenced in this invocation
    calls,      \* per context: the parser calls made in this invocation
    steps,      \* per context: statements executed in this invocation
    ret         \* per context: value returned by the last invocation

vars == <<bigEndian, rxLeft, started, stats, pc, frame, pos, nh_type, action,
          hdrs, reads, calls, steps, ret>>

shared == <<bigEndian, rxLeft, started, stats>>

NoHdrs == [eth |-> Uninit, l3 |-> Uninit, l4 |-> Uninit]

\* xdp_stats_record_action: count the action, hand it back
xdp_stats_record_action(map, act) == [map EXCEPT ![act] = @ + 1]

InitCtx ==
    /\ started = 0
    /\ stats = [a \in 0..4 |-> 0]
    /\ pc = [c \in CPUs |-> "idle"]
    /\ frame = [c \in CPUs |-> <<>>]
    /\ pos = [c \in CPUs |-> 0]
    /\ nh_type = [c \in CPUs |-> 0]
    /\ action = [c \in CPUs |-> XDP_PASS]
    /\ hdrs = [c \in CPUs |-> NoHdrs]
    /\ reads = [c \in CPUs |-> {}]
    /\ calls = [c \in CPUs |-> <<>>]
    /\ steps = [c \in CPUs |-> 0]
    /\ ret = [c \in CPUs |-> Uninit]

\* one frame on one context
Init == bigEndian \in BOOLEAN /\ rxLeft = 1 /\ InitCtx

\* MaxRx frames spread over the contexts
InitConc == bigEndian \in BOOLEAN /\ rxLeft = MaxRx /\ InitCtx

Call(fn, before, r) ==
    [fn |-> fn, before |-> before, after |-> r.pos, ret |-> r.ret,
     iters |-> r.iters]

\* lines 145-166: entry, action = XDP_PASS, nh.pos = data
Receive(c, wire) ==
    /\ pc[c] = "idle"
    /\ rxLeft > 0
    /\ rxLeft' = rxLeft - 1
    /\ started' = started + 1
    /\ \E f \in wire : frame' = [frame EXCEPT ![c] = f]
    /\ pos' = [pos EXCEPT ![c] = 0]
    /\ action' = [action EXCEPT ![c] = XDP_PASS]
    /\ hdrs' = [hdrs EXCEPT ![c] = NoHdrs]
    /\ reads' = [reads EXCEPT ![c] = {}]
    /\ calls' = [calls EXCEPT ![c] = <<>>]
    /\ steps' = [steps EXCEPT ![c] = 0]
    /\ pc' = [pc EXCEPT ![c] = "eth"]
    /\ UNCHANGED <<bigEndian, stats, nh_type, ret>>

\* what every parser call does to the invocation's state
Apply(c, fn, r, handle, next) ==
    /\ pos' = [pos EXCEPT ![c] = r.pos]
    /\ hdrs' = [hdrs EXCEPT ![c] =
                  IF r.ret = -1 /\ r.hdr = Uninit THEN @
                  ELSE [@ EXCEPT ![handle] = r.hdr]]
    /\ reads' = [reads EXCEPT ![c] = @ \cup r.reads]
    /\ calls' = [calls EXCEPT ![c] = Append(@, Call(fn, pos[c], r))]
    /\ steps' = [steps EXCEPT ![c] = @ + 1]
    /\ pc' = [pc EXCEPT ![c] = next]

\* mutant: everything that is not IPv6 is taken for IPv4
EthDispatch_ElseIp4(t, be) ==
    IF t = bpf_htons(ETH_P_IPV6, be) THEN "ip6" ELSE "ip4"

\* lines 172, 173, 183: nh_type = parse_ethhdr(...) and the dispatch on it
EthDispatch(t, be) ==
    IF t = bpf_htons(ETH_P_IPV6, be) THEN "ip6"
    ELSE IF t = bpf_htons(ETH_P_IP, be) THEN "ip4"
    ELSE "out"

ParseEth(c) ==
    /\ pc[c] = "eth"
    /\ LET r == parse_ethhdr(frame[c], bigEndian, pos[c]) IN
         /\ nh_type' = [nh_type EXCEPT ![c] = r.ret]
         /\ Apply(c, "parse_ethhdr", r, "eth", EthDispatch(r.ret, bigEndian))
    /\ UNCHANGED <<shared, frame, action, ret>>

\* line 174: parse_ip6hdr(&nh, data_end, &ip6h); the result is discarded
ParseIp6(c) ==
    /\ pc[c] = "ip6"
    /\ Apply(c, "parse_ip6hdr", parse_ip6hdr(frame[c], bigEndian, pos[c]),
             "l3", "icmp6")
    /\ UNCHANGED <<shared, frame, nh_type, action, ret>>

\* line 184: parse_iphdr(&nh, data_end, &iph); the result is discarded
ParseIp4(c) ==
    /\ pc[c] = "ip4"
    /\ Apply(c, "parse_iphdr", parse_iphdr(frame[c], bigEndian, pos[c]),
             "l3", "icmp4")
    /\ UNCHANGED <<shared, frame, nh_type, action, ret>>

\* lines 175-176: if (parse_icmp6hdr(...) < 0) goto out;
IcmpNext(r, seqpc) == IF r.ret < 0 THEN "out" ELSE seqpc

ParseIcmp6(c) ==
    /\ pc[c] = "icmp6"
    /\ LET r == parse_icmp6hdr(frame[c], bigEndian, pos[c]) IN
         Apply(c, "parse_icmp6hdr", r, "l4", IcmpNext(r, "seq6"))
    /\ UNCHANGED <<shared, frame, nh_type, action, ret>>

\* lines 185-186: if (parse_icmphdr(...) < 0) goto out;
ParseIcmp4(c) ==
    /\ pc[c] = "icmp4"
    /\ LET r == parse_icmphdr(frame[c], bigEndian, pos[c]) IN
         Apply(c, "parse_icmphdr", r, "l4", IcmpNext(r, "seq4"))
    /\ UNCHANGED <<shared, frame, nh_type, action, ret>>

\* lines 177-181: seqno = bpf_ntohs(icmp6h->icmp6_sequence); parity test
Policy6(c) ==
    /\ pc[c] = "seq6"
    /\ LET sq == hdrs[c].l4 + OffIcmp6Sequence IN
         /\ action' = [action EXCEPT ![c] = SeqAction(frame[c], bigEndian, sq)]
         /\ reads' = [reads EXCEPT ![c] = @ \cup {sq, sq + 1}]
    /\ steps' = [steps EXCEPT ![c] = @ + 1]
    /\ pc' = [pc EXCEPT ![c] = "out"]
    /\ UNCHANGED <<shared, frame, pos, nh_type, hdrs, calls, ret>>

\* lines 187-191: seqno = bpf_ntohs(icmph->un.echo.sequence); parity test
Policy4(c) ==
    /\ pc[c] = "seq4"
    /\ LET sq == hdrs[c].l4 + OffEchoSequence IN
         /\ action' = [action EXCEPT ![c] = SeqAction(frame[c], bigEndian, sq)]
         /\ reads' = [reads EXCEPT ![c] = @ \cup {sq, sq + 1}]
    /\ steps' = [steps EXCEPT ![c] = @ + 1]
    /\ pc' = [pc EXCEPT ![c] = "out"]
    /\ UNCHANGED <<shared, frame, pos, nh_type, hdrs, calls, ret>>

\* mutant: out: return action; without recording it
Out_NoRecord(c) ==
    /\ pc[c] = "out"
    /\ ret' = [ret EXCEPT ![c] = action[c]]
    /\ steps' = [steps EXCEPT ![c] = @ + 1]
    /\ pc' = [pc EXCEPT ![c] = "idle"]
    /\ UNCHANGED <<shared, frame, pos, nh_type, action, hdrs, reads, calls>>

\* lines 194-195: out: return xdp_stats_record_action(ctx, action);
Out(c) ==
    /\ pc[c] = "out"
    /\ stats' = xdp_stats_record_action(stats, action[c])
    /\ ret' = [ret EXCEPT ![c] = action[c]]
    /\ steps' = [steps EXCEPT ![c] = @ + 1]
    /\ pc' = [pc EXCEPT ![c] = "idle"]
    /\ UNCHANGED <<bigEndian, rxLeft, started, frame, pos, nh_type, action,
                   hdrs, reads, calls>>

Step(c) ==
    \/ ParseEth(c)
    \/ ParseIp6(c)
    \/ ParseIp4(c)
    \/ ParseIcmp6(c)
    \/ ParseIcmp4(c)
    \/ Policy6(c)
    \/ Policy4(c)
    \/ Out(c)

\* one context classifies one frame, any frame
Next ==
    \/ Receive(1, Frames)
    \/ Step(1)

Spec == Init /\ [][Next]_vars

\* every context classifies frames, interleaved statement by statement
NextConc ==
    \/ \E c \in CPUs : Receive(c, ConcFrames)
    \/ \E c \in CPUs : Step(c)

SpecConc == InitConc /\ [][NextConc]_vars

(***************************************************************************)
(* Reading a frame by the wire formats, independently of the parsers.     *)
(***************************************************************************)
\* the big-endian 16-bit number at offsets o, o+1
Wire16(f, o) == 256 * Byte(f, o) + Byte(f, o + 1)

IsVlanType(t) == t \in {ETH_P_8021Q, ETH_P_8021AD}

\* a VLAN tag occupies offsets o-2 .. o+1 when the EtherType field at o-2
\* names a VLAN and the tag's TCI is there; its own EtherType field is at o+2
RECURSIVE WireTagsFrom(_, _)
WireTagsFrom(f, o) ==
    IF o + 4 <= Len(f) /\ IsVlanType(Wire16(f, o))
    THEN 1 + WireTagsFrom(f, o + 4) ELSE 0

\* number of stacked VLAN tags of a frame
WireTags(f) == WireTagsFrom(f, 12)

\* the frame without its k outermost tags
Untag(f, k) == SubSeq(f, 1, 12) \o SubSeq(f, 13 + 4 * k, Len(f))

\* an invocation on context c has returned; frame[c], calls[c], reads[c],
\* hdrs[c] and ret[c] are those of that invocation
Returned(c) == pc[c] = "idle" /\ ret[c] # Uninit

CallsOf(c, fn) == { i \in DOMAIN calls[c] : calls[c][i].fn = fn }

Failed(c) == \E i \in DOMAIN calls[c] : calls[c][i].ret = -1

\* untagged Ethernet/IPv4/ICMPv4 echo, whole, with IHL in 5..15
WellFormedEcho4(f) ==
    /\ Len(f) >= 34
    /\ Wire16(f, 12) = ETH_P_IP
    /\ Byte(f, 14) \div 16 = 4
    /\ Byte(f, 14) % 16 \in 5..15
    /\ Byte(f, 23) = 1
    /\ Len(f) >= 14 + (Byte(f, 14) % 16) * 4 + 8
    /\ Byte(f, 14 + (Byte(f, 14) % 16) * 4) \in {0, 8}

\* untagged Ethernet/IPv6/ICMPv6 echo, whole
WellFormedEcho6(f) ==
    /\ Len(f) >= 62
    /\ Wire16(f, 12) = ETH_P_IPV6
    /\ Byte(f, 14) \div 16 = 6
    /\ Byte(f, 20) = 58
    /\ Byte(f, 54) \in {128, 129}

\* offset of the ICMP header of a well-formed echo frame
EchoOffset(f) ==
    IF Wire16(f, 12) = ETH_P_IP THEN 14 + (Byte(f, 14) % 16) * 4 ELSE 54

\* the echo sequence number of a well-formed echo frame, as a number
EchoSeq(f) == Wire16(f, EchoOffset(f) + 6)

RECURSIVE SumTo(_, _)
SumTo(m, a) == IF a < 0 THEN 0 ELSE m[a] + SumTo(m, a - 1)

\* sum over all per-action counters
TotalCount == SumTo(stats, 4)

InFlight == Cardinality({ c \in CPUs : pc[c] # "idle" })

(***************************************************************************)
(* The claims.                                                             *)
(***************************************************************************)

\* C1: on every frame the invocation is a bounded straight line of steps
\* that can always continue until it returns, the action it returns is PASS
\* or DROP, and every byte loaded by xdp_parser_func or a parser lies at an
\* offset in [0, data_end).
C1_BoundedReadsAndAction ==
    \A c \in CPUs :
        /\ \A o \in reads[c] : 0 <= o /\ o < DataEnd(frame[c])
        /\ steps[c] <= 5
        /\ \A i \in DOMAIN calls[c] : calls[c][i].iters <= VLAN_MAX_DEPTH
        /\ pc[c] # "idle" => ENABLED Step(c)
        /\ Returned(c) => ret[c] \in {XDP_PASS, XDP_DROP}

\* C1 witness: an invocation returned DROP after loading the last byte of
\* the frame.
C1_Witness ==
    \E c \in CPUs :
        /\ Returned(c)
        /\ ret[c] = XDP_DROP
        /\ DataEnd(frame[c]) - 1 \in reads[c]

\* C2: a frame whose innermost EtherType is IPv6 with next header other
\* than ICMPv6, or IPv4 with protocol other than ICMP, is passed.
C2_NonIcmpPasses ==
    \A c \in CPUs :
        LET f  == frame[c]
            l3 == 14 + 4 * WireTags(f)
            et == Wire16(f, l3 - 2)
        IN  /\ Returned(c)
            /\ \/ et = ETH_P_IPV6 /\ Len(f) >= l3 + 40 /\ Byte(f, l3 + 6) # 58
               \/ et = ETH_P_IP /\ Len(f) >= l3 + 20 /\ Byte(f, l3 + 9) # 1
            => ret[c] = XDP_PASS

\* C3: an invocation in which any parser returned -1 returns PASS.
C3_FailureIsPass ==
    \A c \in CPUs : Returned(c) /\ Failed(c) => ret[c] = XDP_PASS

\* C4: a frame with 1 or 2 VLAN tags inserted is classified with the same
\* action as the frame without them.
C4_VlanTransparency ==
    \A c1, c2 \in CPUs :
        /\ Returned(c1) /\ Returned(c2)
        /\ WireTags(frame[c1]) = 0
        /\ WireTags(frame[c2]) \in 1..2
        /\ Untag(frame[c2], WireTags(frame[c2])) = frame[c1]
        => ret[c2] = ret[c1]

\* C5: on a well-formed untagged IPv4 (IHL 5..15) or IPv6 echo frame the
\* ICMP header is taken at 14 + IHL*4, respectively 54, and the action is
\* DROP exactly when the echo sequence number is even, PASS otherwise.
C5_ParityRule ==
    \A c \in CPUs :
        Returned(c) /\ (WellFormedEcho4(frame[c]) \/ WellFormedEcho6(frame[c]))
        => /\ hdrs[c].l4 = EchoOffset(frame[c])
           /\ ret[c] = IF EchoSeq(frame[c]) % 2 = 0 THEN XDP_DROP ELSE XDP_PASS

\* C5 witness: an IPv4 echo with options (IHL 6) and sequence 0x0100 was
\* dropped on a little-endian host.
C5_Witness ==
    \E c \in CPUs :
        /\ Returned(c)
        /\ ~bigEndian
        /\ WellFormedEcho4(frame[c])
        /\ Byte(frame[c], 14) % 16 = 6
        /\ EchoSeq(frame[c]) = 256
        /\ ret[c] = XDP_DROP

\* C6: on a frame with three or more stacked VLAN tags parse_ethhdr enters
\* its loop body at most VLAN_MAX_DEPTH times, loads nothing at or beyond
\* data_end, and the frame is passed whatever follows the tags.
C6_VlanDepthCap ==
    \A c \in CPUs :
        LET f == frame[c] IN
        /\ Len(f) >= 22
        /\ IsVlanType(Wire16(f, 12))
        /\ IsVlanType(Wire16(f, 16))
        /\ IsVlanType(Wire16(f, 20))
        /\ calls[c] # <<>>
        => /\ calls[c][1].iters <= 2
           /\ \A o \in reads[c] : o < DataEnd(f)
           /\ pc[c] \in {"out", "idle"}
           /\ action[c] = XDP_PASS
           /\ Returned(c) => ret[c] = XDP_PASS

\* C6 witness: a frame with three tags in front of a whole IPv4 echo with
\* an even sequence number was passed after two loop iterations.
C6_Witness ==
    \E c \in CPUs :
        /\ Returned(c)
        /\ WireTags(frame[c]) = 3
        /\ WellFormedEcho4(Untag(frame[c], 3))
        /\ EchoSeq(Untag(frame[c], 3)) % 2 = 0
        /\ calls[c][1].iters = 2
        /\ ret[c] = XDP_PASS

\* C7: when parse_ethhdr fails (frame shorter than 14 bytes) or returns an
\* EtherType that is neither IPv4 nor IPv6, no L3 or L4 parser is called and
\* the frame is passed.
C7_NoL3WithoutIp ==
    \A c \in CPUs :
        /\ Len(frame[c]) < 14 /\ calls[c] # <<>> => calls[c][1].ret = -1
        /\ /\ calls[c] # <<>>
           /\ \/ calls[c][1].ret = -1
              \/ bpf_ntohs(nh_type[c], bigEndian) \notin {ETH_P_IP, ETH_P_IPV6}
           => /\ Len(calls[c]) = 1
              /\ pc[c] \in {"out", "idle"}
              /\ action[c] = XDP_PASS
              /\ Returned(c) => ret[c] = XDP_PASS

\* C7 witness: an ARP frame long enough to hold an ICMP header was passed
\* after the single call of parse_ethhdr.
C7_Witness ==
    \E c \in CPUs :
        /\ Returned(c)
        /\ Len(frame[c]) >= 22
        /\ Wire16(frame[c], 12) = 2054
        /\ Len(calls[c]) = 1
        /\ ret[c] = XDP_PASS

\* C8: under any interleaving the counters sum to the number of
\* invocations that have returned, and the step that returns from an
\* invocation adds one to the counter of the action it returns and to no
\* other.
C8_CountInv == TotalCount + InFlight = started

C8_ReturnStep ==
    \A c \in CPUs :
        pc[c] # "idle" /\ pc'[c] = "idle"
        => stats' = [stats EXCEPT ![ret'[c]] = @ + 1]

C8_CounterConservation == []C8_CountInv /\ [][C8_ReturnStep]_vars

\* C8 witness: all frames of the run were classified, some passed, some
\* dropped, one of them through a parser failure.
C8_Witness ==
    /\ started = MaxRx
    /\ InFlight = 0
    /\ stats[XDP_PASS] >= 1
    /\ stats[XDP_DROP] >= 1
    /\ \E c \in CPUs : Returned(c) /\ Failed(c) /\ calls[c][Len(calls[c])].fn # "parse_ethhdr"

\* C9: after every parser call, failed or not, the cursor is within
\* [data, data_end] and not below where it was before the call, and each
\* parser starts where the previous one stopped.
C9_CursorInvariant ==
    \A c \in CPUs :
        /\ 0 <= pos[c] /\ pos[c] <= DataEnd(frame[c])
        /\ \A i \in DOMAIN calls[c] :
              /\ 0 <= calls[c][i].before
              /\ calls[c][i].before <= calls[c][i].after
              /\ calls[c][i].after <= DataEnd(frame[c])
              /\ i > 1 => calls[c][i].before = calls[c][i - 1].after

\* C9 witness: parse_iphdr succeeded on a header with IHL below 5, moved
\* the cursor by less than the 20 bytes it checked, and the ICMP parser
\* after it failed.
C9_Witness ==
    \E c \in CPUs :
        /\ Returned(c)
        /\ \E i \in CallsOf(c, "parse_iphdr") :
              /\ calls[c][i].ret # -1
              /\ calls[c][i].after < calls[c][i].before + 20
        /\ \E i \in CallsOf(c, "parse_icmphdr") : calls[c][i].ret = -1

\* C10: parse_iphdr on a header whose 20 fixed bytes fit and whose IHL is
\* in 0..4 returns -1 and leaves the cursor where it was.
C10_ShortIhlRejected ==
    \A c \in CPUs :
        \A i \in CallsOf(c, "parse_iphdr") :
            /\ calls[c][i].before + 20 <= DataEnd(frame[c])
            /\ Byte(frame[c], calls[c][i].before) % 16 < 5
            => /\ calls[c][i].ret = -1
               /\ calls[c][i].after = calls[c][i].before

====
